---- MODULE Spec2Model ----
(***************************************************************************)
(* Model of the Reddit monitoring pipeline: RedditMonitor (monitor.py),    *)
(* DataProcessor (data_processor.py), AsyncRedditClient and RedditPost     *)
(* (reddit_client.py) and the settings of config.py.                       *)
(*                                                                         *)
(* Time is counted in hours (the code counts seconds and multiplies every  *)
(* hour quantity by 3600).  Text is a sequence of one-character strings.   *)
(***************************************************************************)
EXTENDS Integers, Sequences, FiniteSets, TLC

(***************************************************************************)
(* Bounds of the model.                                                    *)
(***************************************************************************)
\* number of distinct posts the source can return
NumPosts == 2
\* longest listing returned by one fetch of one subreddit
MaxBatch == 2
\* number of clock advances in a run
MaxTicks == 1
\* capacity of the monitor's ring buffer (deque(maxlen=10000)), scaled
BufferMaxLen == 1
\* number of periodic exports in a run of the monitor
MaxExports == 1
\* number of save_export_data calls that are followed write by write
MaxSaves == 2
\* number of posts handed to a DataProcessor that is fed directly
MaxAdds == 2

(***************************************************************************)
(* config.py                                                               *)
(***************************************************************************)
ALL_SUBREDDITS == <<"stocks", "options">>
SUBREDDITS == [serious_investing |-> <<"stocks">>, options_focus |-> <<"options">>]
HOT_POSTS_INTERVAL == 60
NEW_POSTS_INTERVAL == 30
RISING_POSTS_INTERVAL == 45
MIN_SCORE == 10
MIN_COMMENTS == 5
MAX_AGE_HOURS == 24
EXPORT_INTERVAL == 300
DATA_RETENTION_HOURS == 24
\* the sleeps of the except branches and of the stats reporter (monitor.py)
RETRY_SLEEP == 30
STATS_INTERVAL == 300

Listings == {"hot", "new", "rising"}
Loops == Listings \cup {"export", "stats"}


(***************************************************************************)
(* Text: str.upper, str.lower, substring search, str.split                 *)
(***************************************************************************)
LowerAlpha == <<"a", "b", "c", "d", "e", "f", "g", "h", "i", "j", "k", "l", "m", "n", "o", "p", "q", "r", "s", "t", "u", "v", "w", "x", "y", "z">>
UpperAlpha == <<"A", "B", "C", "D", "E", "F", "G", "H", "I", "J", "K", "L", "M", "N", "O", "P", "Q", "R", "S", "T", "U", "V", "W", "X", "Y", "Z">>
UpperSet == {UpperAlpha[i] : i \in DOMAIN UpperAlpha}
LowerSet == {LowerAlpha[i] : i \in DOMAIN LowerAlpha}
Digits == {"0", "1", "2", "3", "4", "5", "6", "7", "8", "9"}

ToUpper(c) ==
  IF c \in LowerSet THEN UpperAlpha[CHOOSE i \in DOMAIN LowerAlpha : LowerAlpha[i] = c] ELSE c
ToLower(c) ==
  IF c \in UpperSet THEN LowerAlpha[CHOOSE i \in DOMAIN UpperAlpha : UpperAlpha[i] = c] ELSE c
Upper(s) == [i \in 1..Len(s) |-> ToUpper(s[i])]
Lower(s) == [i \in 1..Len(s) |-> ToLower(s[i])]

\* the regex class \w
IsWordChar(c) == c \in UpperSet \cup LowerSet \cup Digits \cup {"_"}

\* needle in hay
Contains(hay, needle) ==
  \E i \in 1..(Len(hay) - Len(needle) + 1) : SubSeq(hay, i, i + Len(needle) - 1) = needle

\* len(s.split())
WordCount(s) ==
  Cardinality({i \in 1..Len(s) : s[i] # " " /\ (i = 1 \/ s[i-1] = " ")})

\* f"{post.title} {post.selftext}"
Content(post) == post.title \o <<" ">> \o post.selftext

SPECULATIVE_KEYWORDS ==
  << <<"y", "o", "l", "o">>,
     <<"m", "o", "o", "n">>,
     <<"r", "o", "c", "k", "e", "t">>,
     <<"d", "i", "a", "m", "o", "n", "d", " ", "h", "a", "n", "d", "s">>,
     <<"h", "o", "d", "l">>,
     <<"s", "q", "u", "e", "e", "z", "e">>,
     <<"g", "a", "m", "m", "a">>,
     <<"s", "h", "o", "r", "t", " ", "i", "n", "t", "e", "r", "e", "s", "t">>,
     <<"D", "D">>,
     <<"d", "u", "e", " ", "d", "i", "l", "i", "g", "e", "n", "c", "e">>,
     <<"c", "a", "l", "l", "s">>,
     <<"p", "u", "t", "s">> >>
positive_words ==
  << <<"b", "u", "y">>,
     <<"b", "u", "l", "l">>,
     <<"m", "o", "o", "n">>,
     <<"r", "o", "c", "k", "e", "t">>,
     <<"s", "t", "r", "o", "n", "g">>,
     <<"g", "r", "o", "w", "t", "h">>,
     <<"p", "r", "o", "f", "i", "t">> >>
negative_words ==
  << <<"s", "e", "l", "l">>,
     <<"b", "e", "a", "r">>,
     <<"c", "r", "a", "s", "h">>,
     <<"d", "u", "m", "p">>,
     <<"l", "o", "s", "s">>,
     <<"d", "e", "c", "l", "i", "n", "e">>,
     <<"d", "r", "o", "p">> >>
options_keywords ==
  << <<"c", "a", "l", "l", "s">>,
     <<"p", "u", "t", "s">>,
     <<"s", "t", "r", "i", "k", "e">>,
     <<"e", "x", "p", "i", "r", "y">>,
     <<"i", "v">>,
     <<"t", "h", "e", "t", "a">> >>

(***************************************************************************)
(* The post source: what Reddit can return.  A post's id fixes its         *)
(* subreddit, creation time and text; score and comment count are read at  *)
(* fetch time and may differ between fetches.                              *)
(***************************************************************************)
PostIds == 1..NumPosts

Title1 == <<"G", "M", "E", " ", "t", "o", " ", "t", "h", "e", " ", "m", "o", "o", "n">>
Body1 == <<"Y", "O", "L", "O", " ", "$", "G", "M", "E", " ", "$", "G", "M", "E">>
Title2 == <<"Q", "u", "a", "r", "t", "e", "r", "l", "y", " ", "e", "a", "r", "n", "i", "n", "g", "s", " ", "r", "e", "v", "i", "e", "w">>
Body2 == <<>>
Title3 == <<"s", "e", "l", "l", " ", "$", "F", " ", "n", "o", "w">>
Body3 == <<"p", "u", "t", "s">>

\* first instant of a run; every modelled post was created at or before it
StartTime == MAX_AGE_HOURS
\* the clock advances in steps of the retention window
ClockStep == DATA_RETENTION_HOURS
EndTime == StartTime + MaxTicks * ClockStep

SourceSubreddit(id) == ALL_SUBREDDITS[((id + 1) % Len(ALL_SUBREDDITS)) + 1]
SourceCreated(id) == IF id % 2 = 1 THEN StartTime - MAX_AGE_HOURS ELSE StartTime
SourceTitle(id) == IF id % 3 = 1 THEN Title1 ELSE IF id % 3 = 2 THEN Title2 ELSE Title3
SourceBody(id) == IF id % 3 = 1 THEN Body1 ELSE IF id % 3 = 2 THEN Body2 ELSE Body3
\* <<score, num_comments>> of a submission read at clock reading t: every second
\* post starts below the acceptance thresholds and rises above them later
SourceEngagement(id, t) ==
  IF id % 2 = 0 /\ t - SourceCreated(id) < ClockStep THEN <<5, 2>> ELSE <<150, 60>>

\* AsyncRedditClient.get_subreddit_category (the modelled names are lower case)
get_subreddit_category(subreddit_name) ==
  IF \E c \in DOMAIN SUBREDDITS : \E i \in DOMAIN SUBREDDITS[c] :
        SUBREDDITS[c][i] = subreddit_name
  THEN CHOOSE c \in DOMAIN SUBREDDITS : \E i \in DOMAIN SUBREDDITS[c] :
        SUBREDDITS[c][i] = subreddit_name
  ELSE "other"

\* AsyncRedditClient._post_to_dataclass at clock reading t
RedditPost(id, eng, t) ==
  [id |-> id,
   title |-> SourceTitle(id),
   selftext |-> SourceBody(id),
   subreddit |-> SourceSubreddit(id),
   score |-> eng[1],
   num_comments |-> eng[2],
   created_utc |-> SourceCreated(id),
   category |-> get_subreddit_category(SourceSubreddit(id)),
   timestamp_collected |-> t]

\* RedditPost.is_recent
is_recent(post, hours, t) == (t - post.created_utc) <= hours
\* RedditPost.meets_criteria
meets_criteria(post, min_score, min_comments) ==
  post.score >= min_score /\ post.num_comments >= min_comments

\* the texts the source can return
SourceContents == {SourceTitle(id) \o <<" ">> \o SourceBody(id) : id \in PostIds}

(***************************************************************************)
(* State                                                                   *)
(***************************************************************************)
VARIABLES
  now,                \* time.time(), in hours
  running,            \* RedditMonitor.running
  mainPc,             \* position of start_monitoring
  pc,                 \* position of each of the five loop tasks
  sleepFor,           \* seconds of the asyncio.sleep a loop is suspended in
  seen_post_ids,      \* RedditMonitor.seen_post_ids
  post_buffer,        \* RedditMonitor.post_buffer
  subreddit_stats,    \* RedditMonitor.subreddit_stats
  posts_buffer,       \* DataProcessor.posts_buffer
  ticker_mentions,    \* DataProcessor.ticker_mentions, in first-seen order
  sentiment_scores,   \* DataProcessor.sentiment_scores
  subreddit_activity, \* DataProcessor.subreddit_activity
  files,              \* the exports directory: file name -> content
  lastCycle,          \* what each listing loop's latest gather returned
  finalExports,       \* final export attempts made by _cleanup
  seenAtStop,         \* seen_post_ids when the running flag was last cleared
  wpc,                \* position of save_export_data
  wdata,              \* the data argument of the running save_export_data
  wname,              \* the filename argument of the running save_export_data
  exportsDone,        \* periodic exports made
  readerGot,          \* how the latest get_latest_data call ended
  returned,           \* the latest direct call of a DataProcessor method and its result
  monitoring_config   \* the 'monitoring' section of config.json (its refresh_interval key)

monVars == <<seen_post_ids, post_buffer, subreddit_stats>>
dpVars == <<posts_buffer, ticker_mentions, sentiment_scores, subreddit_activity>>
loopVars == <<running, mainPc, pc, sleepFor, lastCycle, finalExports, seenAtStop>>
writerVars == <<wpc, wdata, wname, exportsDone, readerGot>>
vars == <<now, monVars, dpVars, loopVars, files, writerVars, returned, monitoring_config>>

\* the sleep that ends a cycle of a listing loop; the one of the hot loop is
\* monitoring_config.get('refresh_interval', 60)
Interval(L) ==
  IF L = "hot"
  THEN IF "refresh_interval" \in DOMAIN monitoring_config
       THEN monitoring_config["refresh_interval"] ELSE HOT_POSTS_INTERVAL
  ELSE IF L = "new" THEN NEW_POSTS_INTERVAL
  ELSE RISING_POSTS_INTERVAL

(***************************************************************************)
(* DataProcessor (data_processor.py).  D is the record of its four fields. *)
(***************************************************************************)
DPState ==
  [posts_buffer |-> posts_buffer, ticker_mentions |-> ticker_mentions,
   sentiment_scores |-> sentiment_scores, subreddit_activity |-> subreddit_activity]

\* ticker_pattern.findall: the matches of \$([A-Z]{1,5})\b starting at or after i
RECURSIVE FindTickers(_, _)
FindTickers(s, i) ==
  IF i > Len(s) THEN <<>>
  ELSE IF s[i] # "$" THEN FindTickers(s, i + 1)
  ELSE LET run == CHOOSE n \in 0..(Len(s) - i) :
                    /\ \A k \in 1..n : s[i + k] \in UpperSet
                    /\ (i + n = Len(s) \/ s[i + n + 1] \notin UpperSet)
           ok == /\ run >= 1
                 /\ run <= 5
                 /\ (i + run = Len(s) \/ ~IsWordChar(s[i + run + 1]))
       IN IF ok THEN <<SubSeq(s, i + 1, i + run)>> \o FindTickers(s, i + run + 1)
          ELSE FindTickers(s, i + 1)

\* Counter: self.ticker_mentions[ticker] += 1
CounterInc(tm, ticker) ==
  IF \E i \in DOMAIN tm : tm[i].ticker = ticker
  THEN [i \in DOMAIN tm |-> IF tm[i].ticker = ticker
                             THEN [tm[i] EXCEPT !.count = @ + 1] ELSE tm[i]]
  ELSE Append(tm, [ticker |-> ticker, count |-> 1])

RECURSIVE CountTickers(_, _)
CountTickers(tm, tickers) ==
  IF tickers = <<>> THEN tm
  ELSE CountTickers(CounterInc(tm, Head(tickers)), Tail(tickers))

\* FindTickers on the source's texts, computed once
TickerTable == [c \in SourceContents |-> FindTickers(Upper(c), 1)]
\* ticker_pattern.findall(content) for content = text.upper()
TickersIn(text) ==
  IF text \in DOMAIN TickerTable THEN TickerTable[text] ELSE FindTickers(Upper(text), 1)

\* DataProcessor._extract_tickers
extract_tickers(tm, post) == CountTickers(tm, TickersIn(Content(post)))

Hits(words, content) ==
  Cardinality({i \in DOMAIN words : Contains(content, words[i])})

Max(a, b) == IF a >= b THEN a ELSE b
Min(a, b) == IF a <= b THEN a ELSE b

\* mutant: a sentiment score that is not clamped
SentimentUnclamped(text) ==
  LET content == Lower(text)
      total_words == WordCount(content)
  IN [total_words |-> total_words,
      num |-> 10 * (Hits(positive_words, content) - Hits(negative_words, content)),
      den |-> Max(total_words, 10)]

\* the score of _analyze_sentiment as the fraction num/den:
\* (positive - negative) / max(total_words / 10, 1), clamped to [-1, 1]
SentimentOfText(text) ==
  LET content == Lower(text)
      positive_score == Hits(positive_words, content)
      negative_score == Hits(negative_words, content)
      total_words == WordCount(content)
      den == Max(total_words, 10)
      num == 10 * (positive_score - negative_score)
  IN [total_words |-> total_words, num |-> Max(0 - den, Min(den, num)), den |-> den]

\* SentimentOfText on the source's texts, computed once
SentimentTable == [c \in SourceContents |-> SentimentOfText(c)]
SentimentOf(post) ==
  IF Content(post) \in DOMAIN SentimentTable
  THEN SentimentTable[Content(post)] ELSE SentimentOfText(Content(post))

\* DataProcessor._analyze_sentiment
\* mutant: an id that has a score keeps it
analyze_sentiment_keeps_first(ss, post) ==
  LET s == SentimentOf(post)
  IN IF s.total_words > 0
     THEN ss @@ (post.id :> [num |-> s.num, den |-> s.den])
     ELSE ss

analyze_sentiment(ss, post) ==
  LET s == SentimentOf(post)
  IN IF s.total_words > 0
     THEN (post.id :> [num |-> s.num, den |-> s.den]) @@ ss
     ELSE ss

\* speculative_pattern.search(content): the keywords joined by |, re.IGNORECASE
MatchesSpeculative(text) ==
  \E i \in DOMAIN SPECULATIVE_KEYWORDS : Contains(Lower(text), Lower(SPECULATIVE_KEYWORDS[i]))
\* any(keyword in content for keyword in options_keywords)
MatchesOptions(text) ==
  \E i \in DOMAIN options_keywords : Contains(Lower(text), options_keywords[i])

\* the two text tests on the source's texts, computed once
SpeculativeTable ==
  [c \in SourceContents |-> [keyword |-> MatchesSpeculative(c), options |-> MatchesOptions(c)]]
TextTests(text) ==
  IF text \in DOMAIN SpeculativeTable THEN SpeculativeTable[text]
  ELSE [keyword |-> MatchesSpeculative(text), options |-> MatchesOptions(text)]

\* mutant: a classifier that takes high engagement for speculation at any age
is_speculative_post_any_age(post, t) ==
  \/ TextTests(Content(post)).keyword
  \/ (post.score > 100 /\ post.num_comments > 50)
  \/ TextTests(Content(post)).options

\* DataProcessor.is_speculative_post at clock reading t
is_speculative_post(post, t) ==
  \/ TextTests(Content(post)).keyword
  \/ (post.score > 100 /\ post.num_comments > 50 /\ (t - post.created_utc) < 6)
  \/ TextTests(Content(post)).options

\* the defaultdict factory of subreddit_activity
NewActivity == [posts |-> <<>>, total_score |-> 0, total_comments |-> 0, speculative_count |-> 0]

\* DataProcessor._update_subreddit_activity
update_subreddit_activity(sa, post, t) ==
  LET activity == IF post.subreddit \in DOMAIN sa THEN sa[post.subreddit] ELSE NewActivity
      updated ==
        [posts |-> Append(activity.posts,
                          [id |-> post.id, score |-> post.score,
                           comments |-> post.num_comments, timestamp |-> post.created_utc]),
         total_score |-> activity.total_score + post.score,
         total_comments |-> activity.total_comments + post.num_comments,
         speculative_count |-> activity.speculative_count
                               + (IF is_speculative_post(post, t) THEN 1 ELSE 0)]
  IN (post.subreddit :> updated) @@ sa

\* the loop body of add_posts for one post
AddOne(D, post, t) ==
  [D EXCEPT !.ticker_mentions = extract_tickers(@, post),
            !.sentiment_scores = analyze_sentiment(@, post),
            !.subreddit_activity = update_subreddit_activity(@, post, t)]

RECURSIVE AddEach(_, _, _)
AddEach(D, posts, t) ==
  IF posts = <<>> THEN D ELSE AddEach(AddOne(D, Head(posts), t), Tail(posts), t)

\* DataProcessor.add_posts
add_posts(D, posts, t) ==
  AddEach([D EXCEPT !.posts_buffer = @ \o posts], posts, t)

\* mutant: a cleanup that keeps the entries that are exactly at the cutoff
cleanup_keeps_cutoff(D, t) ==
  LET cutoff_time == t - DATA_RETENTION_HOURS
  IN [D EXCEPT
        !.posts_buffer = SelectSeq(@, LAMBDA post : post.timestamp_collected >= cutoff_time),
        !.subreddit_activity =
            [sub \in DOMAIN @ |->
               [@[sub] EXCEPT !.posts = SelectSeq(@, LAMBDA p : p.timestamp >= cutoff_time)]]]

\* mutant: a cleanup that also forgets the sentiment of the posts it removes
cleanup_drops_sentiment(D, t) ==
  LET cutoff_time == t - DATA_RETENTION_HOURS
      kept == SelectSeq(D.posts_buffer, LAMBDA post : post.timestamp_collected > cutoff_time)
      keptIds == {kept[i].id : i \in DOMAIN kept}
  IN [D EXCEPT
        !.posts_buffer = kept,
        !.sentiment_scores = [id \in DOMAIN @ \cap keptIds |-> @[id]],
        !.subreddit_activity =
            [sub \in DOMAIN @ |->
               [@[sub] EXCEPT !.posts = SelectSeq(@, LAMBDA p : p.timestamp > cutoff_time)]]]

\* mutant: a cleanup that also empties the ticker table
cleanup_clears_tickers(D, t) ==
  LET cutoff_time == t - DATA_RETENTION_HOURS
  IN [D EXCEPT
        !.posts_buffer = SelectSeq(@, LAMBDA post : post.timestamp_collected > cutoff_time),
        !.ticker_mentions = <<>>,
        !.subreddit_activity =
            [sub \in DOMAIN @ |->
               [@[sub] EXCEPT !.posts = SelectSeq(@, LAMBDA p : p.timestamp > cutoff_time)]]]

\* DataProcessor._cleanup_old_data at clock reading t
cleanup_old_data(D, t) ==
  LET cutoff_time == t - DATA_RETENTION_HOURS
  IN [D EXCEPT
        !.posts_buffer = SelectSeq(@, LAMBDA post : post.timestamp_collected > cutoff_time),
        !.subreddit_activity =
            [sub \in DOMAIN @ |->
               [@[sub] EXCEPT !.posts = SelectSeq(@, LAMBDA p : p.timestamp > cutoff_time)]]]

\* round(num / den * scale) as Python rounds: to nearest, ties to even (den > 0)
RoundScaled(num, den, scale) ==
  LET n == num * scale
      q == n \div den
      r == n % den
  IN IF 2 * r < den THEN q
     ELSE IF 2 * r > den THEN q + 1
     ELSE IF q % 2 = 0 THEN q ELSE q + 1

\* mutant: the first n entries of the counter, unsorted
most_common_first_seen(tm, n) == SubSeq(tm, 1, Min(n, Len(tm)))

\* Counter.most_common(n): descending count, ties in first-seen order
most_common(tm, n) ==
  LET rank(i) == Cardinality({j \in DOMAIN tm :
                     \/ tm[j].count > tm[i].count
                     \/ (tm[j].count = tm[i].count /\ j < i)}) + 1
      sorted == [k \in 1..Len(tm) |-> tm[CHOOSE i \in DOMAIN tm : rank(i) = k]]
  IN SubSeq(sorted, 1, Min(n, Len(tm)))

\* DataProcessor.get_trending_tickers
get_trending_tickers(D, top_n) == most_common(D.ticker_mentions, top_n)

\* DataProcessor.get_subreddit_insights; averages in hundredths, ratio in thousandths
get_subreddit_insights(D, t) ==
  LET sa == D.subreddit_activity
      listed == {sub \in DOMAIN sa : sa[sub].posts # <<>>}
  IN [sub \in listed |->
        LET posts == sa[sub].posts
        IN [total_posts |-> Len(posts),
            avg_score |-> RoundScaled(sa[sub].total_score, Len(posts), 100),
            avg_comments |-> RoundScaled(sa[sub].total_comments, Len(posts), 100),
            speculative_ratio |-> RoundScaled(sa[sub].speculative_count, Len(posts), 1000),
            recent_activity |-> Cardinality({i \in DOMAIN posts : (t - posts[i].timestamp) < 1}),
            category |-> get_subreddit_category(sub)]]

RECURSIVE Product(_, _)
Product(f, S) ==
  IF S = {} THEN 1 ELSE LET x == CHOOSE y \in S : TRUE IN f[x] * Product(f, S \ {x})
RECURSIVE Sum(_, _)
Sum(f, S) ==
  IF S = {} THEN 0 ELSE LET x == CHOOSE y \in S : TRUE IN f[x] + Sum(f, S \ {x})

\* DataProcessor._get_sentiment_summary; average in thousandths
get_sentiment_summary(D) ==
  LET ss == D.sentiment_scores
      ids == DOMAIN ss
  IN IF ids = {}
     THEN [average |-> 0, positive |-> 0, negative |-> 0, neutral |-> 0]
     ELSE LET positive == Cardinality({i \in ids : 10 * ss[i].num > ss[i].den})
              negative == Cardinality({i \in ids : 10 * ss[i].num < 0 - ss[i].den})
              common == Product([i \in ids |-> ss[i].den], ids)
              total == Sum([i \in ids |-> ss[i].num * (common \div ss[i].den)], ids)
          IN [average |-> RoundScaled(total, common * Cardinality(ids), 1000),
              positive |-> positive,
              negative |-> negative,
              neutral |-> Cardinality(ids) - positive - negative,
              total |-> Cardinality(ids)]

\* DataProcessor._get_activity_summary; ratio in thousandths, rate in hundredths
get_activity_summary(D, t) ==
  LET buf == D.posts_buffer
      total_posts == Len(buf)
      total_speculative == Cardinality({i \in DOMAIN buf : is_speculative_post(buf[i], t)})
      oldest == CHOOSE i \in DOMAIN buf :
                  \A j \in DOMAIN buf : buf[i].timestamp_collected <= buf[j].timestamp_collected
      time_span == t - buf[oldest].timestamp_collected
      posting_rate == IF buf = <<>> THEN 0
                      ELSE IF time_span > 0
                      THEN RoundScaled(total_posts, Max(time_span, 1), 100)
                      ELSE 0
  IN [total_posts |-> total_posts,
      speculative_posts |-> total_speculative,
      speculative_ratio |-> IF total_posts > 0
                            THEN RoundScaled(total_speculative, total_posts, 1000) ELSE 0,
      posting_rate_per_hour |-> posting_rate,
      active_subreddits |-> Cardinality(DOMAIN D.subreddit_activity),
      unique_tickers_mentioned |-> Len(D.ticker_mentions)]

\* the dict built by export_for_analysis from the cleaned state D (without its
\* recent_priority_posts list, which filter_priority_posts would build)
ExportData(D, t) ==
  [metadata |-> [timestamp |-> t,
                 total_posts |-> Len(D.posts_buffer),
                 data_window_hours |-> DATA_RETENTION_HOURS,
                 monitoring_interval |-> [hot_posts |-> Interval("hot"),
                                          new_posts |-> NEW_POSTS_INTERVAL,
                                          rising_posts |-> RISING_POSTS_INTERVAL]],
   trending_tickers |-> get_trending_tickers(D, 20),
   subreddit_insights |-> get_subreddit_insights(D, t),
   sentiment_analysis |-> get_sentiment_summary(D),
   activity_summary |-> get_activity_summary(D, t)]

\* DataProcessor.export_for_analysis: the state it leaves and the dict it returns
export_for_analysis(D, t) ==
  LET cleaned == cleanup_old_data(D, t)
  IN [state |-> cleaned, data |-> ExportData(cleaned, t)]

(***************************************************************************)
(* The exports directory and DataProcessor.save_export_data                *)
(***************************************************************************)
ExportKeys ==
  <<"metadata", "trending_tickers", "subreddit_insights", "sentiment_analysis", "activity_summary">>

\* json.dumps(data, indent=2, default=str): the key/value pairs in dict order
JsonDumps(data) == [k \in 1..Len(ExportKeys) |-> <<ExportKeys[k], data[ExportKeys[k]]>>]

\* json.loads(content): only a text with every key of the dict in it parses
JsonLoads(content) ==
  IF Len(content) = Len(ExportKeys)
  THEN [ok |-> TRUE, data |-> [key \in {ExportKeys[k] : k \in DOMAIN ExportKeys} |->
                                 content[CHOOSE k \in DOMAIN content : content[k][1] = key][2]]]
  ELSE [ok |-> FALSE, data |-> <<>>]

LatestPath == <<"latest.json", 0, 0>>
\* f"reddit_data_{timestamp}.json" and f"reddit_data_final_{timestamp}.json": the
\* timestamp has the seconds in it and successive periodic exports are at least
\* EXPORT_INTERVAL seconds apart, so the n-th periodic export has a name of its own
PeriodicName(t, n) == <<"reddit_data", t, n>>
FinalName(t) == <<"reddit_data_final", t, 0>>

\* aiofiles.open(path, 'w'): the file is created or truncated
OpenW(fs, path) == (path :> <<>>) @@ fs
\* the next part of content reaches the file
WriteChunk(fs, path, content) == (path :> SubSeq(content, 1, Len(fs[path]) + 1)) @@ fs
\* the file holds the first k parts of content
Written(fs, path, content, k) == (path :> SubSeq(content, 1, k)) @@ fs

\* the directory states a whole call save_export_data(data, filename) can leave,
\* whole files only: the first open raises, the second open raises, or nothing raises
\* (an exception ends the call in its except branch)
SaveOutcomes(fs, data, filename) ==
  LET content == JsonDumps(data)
      first == Written(fs, filename, content, Len(content))
  IN {fs, first, Written(first, LatestPath, content, Len(content))}

(***************************************************************************)
(* RedditMonitor (monitor.py).  M is the record of its three collections.  *)
(***************************************************************************)
MonState ==
  [seen_post_ids |-> seen_post_ids, post_buffer |-> post_buffer,
   subreddit_stats |-> subreddit_stats]

\* the defaultdict factory of subreddit_stats
NewStats == [total_posts |-> 0, hot_posts |-> 0, speculative_posts |-> 0, last_activity |-> 0]

\* mutant: append to a deque without maxlen
DequeAppendUnbounded(q, x) == Append(q, x)

\* deque(maxlen=...).append
DequeAppend(q, x) ==
  LET a == Append(q, x) IN IF Len(a) > BufferMaxLen THEN Tail(a) ELSE a

\* mutant: the loop of _process_posts without its test of seen_post_ids
SkippedWithoutSeenTest(M, post, t) ==
  \/ ~is_recent(post, MAX_AGE_HOURS, t)
  \/ ~meets_criteria(post, MIN_SCORE, MIN_COMMENTS)

\* mutant: the loop of _process_posts without its test of the thresholds
SkippedWithoutCriteria(M, post, t) ==
  \/ post.id \in M.seen_post_ids
  \/ ~is_recent(post, MAX_AGE_HOURS, t)

\* the three tests of the loop of _process_posts
Skipped(M, post, t) ==
  \/ post.id \in M.seen_post_ids
  \/ ~is_recent(post, MAX_AGE_HOURS, t)
  \/ ~meets_criteria(post, MIN_SCORE, MIN_COMMENTS)

\* the body of the loop of _process_posts for a post that is not skipped
Accept(M, post, post_type, subreddit, t) ==
  LET stats == IF subreddit \in DOMAIN M.subreddit_stats
               THEN M.subreddit_stats[subreddit] ELSE NewStats
      updated ==
        [total_posts |-> stats.total_posts + 1,
         last_activity |-> t,
         hot_posts |-> stats.hot_posts + (IF post_type = "hot" THEN 1 ELSE 0),
         speculative_posts |-> stats.speculative_posts
                               + (IF is_speculative_post(post, t) THEN 1 ELSE 0)]
  IN [seen_post_ids |-> M.seen_post_ids \cup {post.id},
      post_buffer |-> DequeAppend(M.post_buffer, post),
      subreddit_stats |-> (subreddit :> updated) @@ M.subreddit_stats]

\* mutant: the loop of _process_posts records the id of a skipped post as seen
RECURSIVE ProcessEachMarkingSkipped(_, _, _, _, _)
ProcessEachMarkingSkipped(acc, posts, post_type, subreddit, t) ==
  IF posts = <<>> THEN acc
  ELSE LET post == Head(posts)
           next == IF Skipped(acc.m, post, t)
                   THEN [acc EXCEPT !.m.seen_post_ids = @ \cup {post.id}]
                   ELSE [m |-> Accept(acc.m, post, post_type, subreddit, t),
                         new_posts |-> Append(acc.new_posts, post)]
       IN ProcessEachMarkingSkipped(next, Tail(posts), post_type, subreddit, t)

\* the loop of _process_posts: acc = [m |-> monitor state, new_posts |-> accepted so far]
RECURSIVE ProcessEach(_, _, _, _, _)
ProcessEach(acc, posts, post_type, subreddit, t) ==
  IF posts = <<>> THEN acc
  ELSE LET post == Head(posts)
           next == IF Skipped(acc.m, post, t) THEN acc
                   ELSE [m |-> Accept(acc.m, post, post_type, subreddit, t),
                         new_posts |-> Append(acc.new_posts, post)]
       IN ProcessEach(next, Tail(posts), post_type, subreddit, t)

\* mutant: _handle_new_posts returns before the batch reaches the data processor
handle_new_posts_deferred(D, posts, post_type, t) == D

\* RedditMonitor._handle_new_posts (its priority report only logs)
handle_new_posts(D, posts, post_type, t) == add_posts(D, posts, t)

\* mutant: _process_posts starts the statistics of a subreddit afresh when its
\* fetch returned nothing
process_posts_resetting(S, posts, post_type, subreddit, t) ==
  LET acc == ProcessEach([m |-> S.m, new_posts |-> <<>>], posts, post_type, subreddit, t)
  IN [m |-> IF posts = <<>>
            THEN [acc.m EXCEPT !.subreddit_stats = (subreddit :> NewStats) @@ @]
            ELSE acc.m,
      d |-> IF acc.new_posts # <<>>
            THEN handle_new_posts(S.d, acc.new_posts, post_type, t) ELSE S.d]

\* RedditMonitor._process_posts on state S = [m |-> monitor, d |-> data processor]
process_posts(S, posts, post_type, subreddit, t) ==
  LET acc == ProcessEach([m |-> S.m, new_posts |-> <<>>], posts, post_type, subreddit, t)
  IN [m |-> acc.m,
      d |-> IF acc.new_posts # <<>>
            THEN handle_new_posts(S.d, acc.new_posts, post_type, t) ELSE S.d]

\* mutant: the first failed fetch ends the processing of the cycle's results
RECURSIVE ProcessResultsUntilFailure(_, _, _, _, _)
ProcessResultsUntilFailure(S, results, i, post_type, t) ==
  IF i > Len(results) \/ results[i].failed THEN S
  ELSE ProcessResultsUntilFailure(
         process_posts(S, results[i].posts, post_type, ALL_SUBREDDITS[i], t),
         results, i + 1, post_type, t)

\* the for loop over the gathered results of one cycle, from index i on:
\* every result that is a list is processed, in the order of ALL_SUBREDDITS
RECURSIVE ProcessResults(_, _, _, _, _)
ProcessResults(S, results, i, post_type, t) ==
  IF i > Len(results) THEN S
  ELSE ProcessResults(process_posts(S, results[i].posts, post_type, ALL_SUBREDDITS[i], t),
                      results, i + 1, post_type, t)

(***************************************************************************)
(* AsyncRedditClient.get_hot_posts / get_new_posts                         *)
(***************************************************************************)
\* the submissions of a subreddit that exist at clock reading t
Available(subreddit, t) ==
  {RedditPost(id, SourceEngagement(id, t), t) :
     id \in {i \in PostIds : SourceSubreddit(i) = subreddit /\ SourceCreated(i) <= t}}

SeqsUpTo(S, n) == UNION {[1..k -> S] : k \in 0..n}

\* what one call can return: the posts of a listing, or [] after a logged exception
FetchOutcomes(subreddit, t) ==
  {[failed |-> TRUE, posts |-> <<>>]}
  \cup {[failed |-> FALSE, posts |-> ps] : ps \in SeqsUpTo(Available(subreddit, t), MaxBatch)}

\* asyncio.gather over ALL_SUBREDDITS[i..]: one result per subreddit, in order
RECURSIVE GatherFrom(_, _)
GatherFrom(i, t) ==
  IF i > Len(ALL_SUBREDDITS) THEN {<<>>}
  ELSE {<<h>> \o rest : h \in FetchOutcomes(ALL_SUBREDDITS[i], t), rest \in GatherFrom(i + 1, t)}

GatherOutcomes(t) == GatherFrom(1, t)

\* the listings AsyncRedditClient has a method for (get_hot_posts, get_new_posts)
ClientListings == {"hot", "new"}

(***************************************************************************)
(* The monitor as a state machine                                          *)
(***************************************************************************)
NoCycle ==
  [listing |-> "none", failed |-> {}, due |-> {}, repeats |-> {}, skipped |-> {},
   skippedEver |-> {}]

\* no method of the DataProcessor has been called directly
NoCall == [method |-> "none"]

\* the state after construction, whatever the configuration
Construct ==
  /\ now = StartTime
  /\ running = FALSE
  /\ mainPc = "init"
  /\ pc = [l \in Loops |-> "none"]
  /\ sleepFor = [l \in Loops |-> 0]
  /\ seen_post_ids = {}
  /\ post_buffer = <<>>
  /\ subreddit_stats = <<>>
  /\ posts_buffer = <<>>
  /\ ticker_mentions = <<>>
  /\ sentiment_scores = <<>>
  /\ subreddit_activity = <<>>
  /\ files = <<>>
  /\ lastCycle = NoCycle
  /\ finalExports = 0
  /\ seenAtStop = {}
  /\ wpc = "idle"
  /\ wdata = <<>>
  /\ wname = <<>>
  /\ exportsDone = 0
  /\ readerGot = "unread"
  /\ returned = NoCall

\* no config.json: every setting has its default
Init == Construct /\ monitoring_config = <<>>

SetDP(D) ==
  /\ posts_buffer' = D.posts_buffer
  /\ ticker_mentions' = D.ticker_mentions
  /\ sentiment_scores' = D.sentiment_scores
  /\ subreddit_activity' = D.subreddit_activity

SetMon(M) ==
  /\ seen_post_ids' = M.seen_post_ids
  /\ post_buffer' = M.post_buffer
  /\ subreddit_stats' = M.subreddit_stats

\* time passes
Tick ==
  /\ now + ClockStep <= EndTime
  /\ now' = now + ClockStep
  /\ UNCHANGED <<monitoring_config, returned, monVars, dpVars, loopVars, files, writerVars>>

\* start_monitoring: the flag is set, the client is set up, the five tasks are created
StartMonitoring ==
  /\ mainPc = "init"
  /\ running' = TRUE
  /\ mainPc' = "gather"
  /\ pc' = [l \in Loops |-> "start"]
  /\ UNCHANGED <<monitoring_config, returned, now, monVars, dpVars, sleepFor, lastCycle, finalExports, seenAtStop,
                 files, writerVars>>

\* start_monitoring: AsyncRedditClient.__aenter__ raises (both constructor calls of
\* _setup_client fail); the exception leaves start_monitoring before its try block
SetupFails ==
  /\ mainPc = "init"
  /\ running' = TRUE
  /\ mainPc' = "failed"
  /\ UNCHANGED <<monitoring_config, returned, now, monVars, dpVars, pc, sleepFor, lastCycle, finalExports, seenAtStop,
                 files, writerVars>>

\* _signal_handler (SIGINT, SIGTERM); a signal that arrives before start_monitoring
\* clears a flag that is clear already
Signal ==
  /\ mainPc \in {"init", "gather"}
  /\ running' = FALSE
  /\ seenAtStop' = IF running THEN seen_post_ids ELSE seenAtStop
  /\ UNCHANGED <<monitoring_config, returned, now, monVars, dpVars, mainPc, pc, sleepFor, lastCycle, finalExports,
                 files, writerVars>>

\* the order in which start_monitoring creates the tasks; the event loop runs the
\* first step of each task in this order
TaskOrder == <<"hot", "new", "rising", "export", "stats">>
TaskIndex(l) == CHOOSE i \in DOMAIN TaskOrder : TaskOrder[i] = l

\* a loop is at its while test: its sleep has ended, or its task takes its first step
AtLoopTest(l) ==
  \/ pc[l] \in {"sleeping", "backoff"}
  \/ /\ pc[l] = "start"
     /\ \A k \in Loops : TaskIndex(k) < TaskIndex(l) => pc[k] # "start"

\* while self.running: the flag is clear and the loop ends
LoopExit(l) ==
  /\ AtLoopTest(l)
  /\ ~running
  /\ pc' = [pc EXCEPT ![l] = "done"]
  /\ sleepFor' = [sleepFor EXCEPT ![l] = 0]
  /\ UNCHANGED <<monitoring_config, returned, now, monVars, dpVars, running, mainPc, lastCycle, finalExports, seenAtStop,
                 files, writerVars>>

\* mutant: a listing loop that begins a cycle without testing the flag
BeginCycleUnguarded(L) ==
  /\ L \in ClientListings
  /\ AtLoopTest(L)
  /\ pc' = [pc EXCEPT ![L] = "fetching"]
  /\ sleepFor' = [sleepFor EXCEPT ![L] = 0]
  /\ UNCHANGED <<monitoring_config, returned, now, monVars, dpVars, running, mainPc, lastCycle, finalExports, seenAtStop,
                 files, writerVars>>

\* a listing loop builds its fetch tasks and awaits asyncio.gather
BeginCycle(L) ==
  /\ L \in ClientListings
  /\ AtLoopTest(L)
  /\ running
  /\ pc' = [pc EXCEPT ![L] = "fetching"]
  /\ sleepFor' = [sleepFor EXCEPT ![L] = 0]
  /\ UNCHANGED <<monitoring_config, returned, now, monVars, dpVars, running, mainPc, lastCycle, finalExports, seenAtStop,
                 files, writerVars>>

\* mutant: the exception of a cycle leaves the while loop
CycleRaisesEndsLoop(L) ==
  /\ L \in Listings \ ClientListings
  /\ AtLoopTest(L)
  /\ running
  /\ pc' = [pc EXCEPT ![L] = "done"]
  /\ sleepFor' = [sleepFor EXCEPT ![L] = 0]
  /\ UNCHANGED <<monitoring_config, returned, now, monVars, dpVars, running, mainPc, lastCycle, finalExports, seenAtStop,
                 files, writerVars>>

\* a listing loop calls a method the client does not have: AttributeError,
\* caught by except Exception, which sleeps before the next iteration
CycleRaises(L) ==
  /\ L \in Listings \ ClientListings
  /\ AtLoopTest(L)
  /\ running
  /\ pc' = [pc EXCEPT ![L] = "backoff"]
  /\ sleepFor' = [sleepFor EXCEPT ![L] = RETRY_SLEEP]
  /\ UNCHANGED <<monitoring_config, returned, now, monVars, dpVars, running, mainPc, lastCycle, finalExports, seenAtStop,
                 files, writerVars>>

\* the ids a cycle has to accept: returned by a fetch, not seen before the cycle,
\* recent and above the thresholds
Due(M, results, t) ==
  UNION {{results[i].posts[k].id :
            k \in {j \in DOMAIN results[i].posts :
                     /\ is_recent(results[i].posts[j], MAX_AGE_HOURS, t)
                     /\ meets_criteria(results[i].posts[j], MIN_SCORE, MIN_COMMENTS)}} :
         i \in DOMAIN results} \ M.seen_post_ids

\* the ids a cycle is handed again: seen before the cycle, or returned more than
\* once by the fetches of the cycle
Repeats(M, results) ==
  LET at == {<<i, k>> : i \in DOMAIN results, k \in 1..MaxBatch}
      occ == {p \in at : p[2] \in DOMAIN results[p[1]].posts}
      idAt(p) == results[p[1]].posts[p[2]].id
  IN {idAt(p) : p \in {q \in occ : \/ idAt(q) \in M.seen_post_ids
                                   \/ \E r \in occ : r # q /\ idAt(r) = idAt(q)}}

\* asyncio.gather returned results; the loop processes every result and goes to sleep
Cycle(L, results) ==
  /\ pc[L] = "fetching"
  /\ LET S == ProcessResults([m |-> MonState, d |-> DPState], results, 1, L, now)
     IN SetMon(S.m) /\ SetDP(S.d)
  /\ pc' = [pc EXCEPT ![L] = "sleeping"]
  /\ sleepFor' = [sleepFor EXCEPT ![L] = Interval(L)]
  /\ UNCHANGED <<monitoring_config, returned, now, running, mainPc, finalExports, seenAtStop, files, writerVars>>

CompleteCycle(L) ==
  /\ \E results \in GatherOutcomes(now) : Cycle(L, results)
  /\ UNCHANGED lastCycle

\* the same step with what gather returned on record: the subreddits whose fetch
\* logged an error, the ids the cycle has to accept, the ids it is handed again, the
\* ids it is handed too old or below a threshold, and those of all cycles so far
ObservedCycle(L) ==
  \E results \in GatherOutcomes(now) :
    LET unfit == UNION {{results[i].posts[k].id :
                          k \in {j \in DOMAIN results[i].posts :
                                   \/ now - results[i].posts[j].created_utc > MAX_AGE_HOURS
                                   \/ results[i].posts[j].score < MIN_SCORE
                                   \/ results[i].posts[j].num_comments < MIN_COMMENTS}} :
                        i \in DOMAIN results}
    IN /\ Cycle(L, results)
       /\ lastCycle' = [listing |-> L,
                        failed |-> {ALL_SUBREDDITS[i] : i \in {j \in DOMAIN results : results[j].failed}},
                        due |-> Due(MonState, results, now),
                        repeats |-> Repeats(MonState, results),
                        skipped |-> unfit,
                        skippedEver |-> lastCycle.skippedEver \cup unfit]

\* one iteration of _periodic_export: snapshot, save, sleep
PeriodicExport ==
  /\ AtLoopTest("export")
  /\ running
  /\ exportsDone < MaxExports
  /\ LET e == export_for_analysis(DPState, now)
     IN /\ SetDP(e.state)
        /\ files' \in SaveOutcomes(files, e.data, PeriodicName(now, exportsDone))
  /\ exportsDone' = exportsDone + 1
  /\ pc' = [pc EXCEPT !["export"] = "sleeping"]
  /\ sleepFor' = [sleepFor EXCEPT !["export"] = EXPORT_INTERVAL]
  /\ UNCHANGED <<monitoring_config, returned, now, monVars, running, mainPc, lastCycle, finalExports, seenAtStop,
                 wpc, wdata, wname, readerGot>>

\* _stats_reporter: sleep, then log the totals (the report changes no state)
StatsReport ==
  /\ AtLoopTest("stats")
  /\ running
  /\ pc' = [pc EXCEPT !["stats"] = "sleeping"]
  /\ sleepFor' = [sleepFor EXCEPT !["stats"] = STATS_INTERVAL]
  /\ UNCHANGED <<monitoring_config, returned, now, monVars, dpVars, running, mainPc, lastCycle, finalExports, seenAtStop,
                 files, writerVars>>

\* mutant: _cleanup takes the final snapshot without waiting for the tasks
CleanupBeforeTasksEnd ==
  /\ mainPc = "gather"
  /\ LET e == export_for_analysis(DPState, now)
     IN /\ SetDP(e.state)
        /\ files' \in SaveOutcomes(files, e.data, FinalName(now))
  /\ finalExports' = finalExports + 1
  /\ mainPc' = "done"
  /\ UNCHANGED <<monitoring_config, returned, now, monVars, running, pc, sleepFor, lastCycle, seenAtStop, writerVars>>

\* the gather of start_monitoring returns once all five tasks are done; the finally
\* block runs _cleanup: final snapshot and save
Cleanup ==
  /\ mainPc = "gather"
  /\ \A l \in Loops : pc[l] = "done"
  /\ LET e == export_for_analysis(DPState, now)
     IN /\ SetDP(e.state)
        /\ files' \in SaveOutcomes(files, e.data, FinalName(now))
  /\ finalExports' = finalExports + 1
  /\ mainPc' = "done"
  /\ UNCHANGED <<monitoring_config, returned, now, monVars, running, pc, sleepFor, lastCycle, seenAtStop, writerVars>>

Next ==
  \/ Tick
  \/ StartMonitoring
  \/ SetupFails
  \/ Signal
  \/ \E l \in Loops : LoopExit(l)
  \/ \E L \in Listings : BeginCycle(L)
  \/ \E L \in Listings : CycleRaises(L)
  \/ \E L \in Listings : CompleteCycle(L)
  \/ PeriodicExport
  \/ StatsReport
  \/ Cleanup

Spec == Init /\ [][Next]_vars

\* the monitor started with a config.json whose refresh_interval is the default,
\* zero or negative
ConfigInit ==
  /\ Construct
  /\ monitoring_config \in {[refresh_interval |-> n] : n \in {HOT_POSTS_INTERVAL, 0, -30}}

ConfigSpec == ConfigInit /\ [][Next]_vars

(***************************************************************************)
(* The monitor while the flag stays set, with each cycle's results on      *)
(* record.  The stats reporter, which touches none of the collections, is  *)
(* not scheduled.                                                          *)
(***************************************************************************)
PipelineNext ==
  \/ Tick
  \/ StartMonitoring
  \/ \E L \in Listings : BeginCycle(L)
  \/ \E L \in Listings : CycleRaises(L)
  \/ \E L \in Listings : ObservedCycle(L)
  \/ PeriodicExport

PipelineSpec == Init /\ [][PipelineNext]_vars

(***************************************************************************)
(* save_export_data write by write, with a reader of latest.json           *)
(* (AnalysisAPI.get_latest_data) running in another process.  The exports  *)
(* are followed at one reading of the clock.                               *)
(***************************************************************************)
Saving == wpc \in {"open1", "write1", "open2", "write2"}

\* _periodic_export up to the call of save_export_data
ExportCall ==
  /\ AtLoopTest("export")
  /\ running
  /\ exportsDone < MaxSaves
  /\ LET e == export_for_analysis(DPState, now)
     IN /\ SetDP(e.state)
        /\ wdata' = e.data
  /\ wname' = PeriodicName(now, exportsDone)
  /\ wpc' = "open1"
  /\ exportsDone' = exportsDone + 1
  /\ pc' = [pc EXCEPT !["export"] = "saving"]
  /\ UNCHANGED <<monitoring_config, returned, now, monVars, running, mainPc, sleepFor, lastCycle, finalExports, seenAtStop,
                 files, readerGot>>

\* save_export_data returns and _periodic_export goes to sleep
SaveReturns(outcome) ==
  /\ wpc' = outcome
  /\ pc' = [pc EXCEPT !["export"] = "sleeping"]
  /\ sleepFor' = [sleepFor EXCEPT !["export"] = EXPORT_INTERVAL]

\* mutant: a save that goes to latest.json without writing the timestamped file
OpenTimestampedSkipped ==
  /\ wpc = "open1"
  /\ wpc' = "open2"
  /\ UNCHANGED <<monitoring_config, returned, now, monVars, dpVars, loopVars, files, wdata, wname, exportsDone, readerGot>>

\* async with aiofiles.open(filepath, 'w')
OpenTimestamped ==
  /\ wpc = "open1"
  /\ files' = OpenW(files, wname)
  /\ wpc' = "write1"
  /\ UNCHANGED <<monitoring_config, returned, now, monVars, dpVars, loopVars, wdata, wname, exportsDone, readerGot>>

\* await f.write(json.dumps(data, indent=2, default=str)), part by part
WriteTimestamped ==
  /\ wpc = "write1"
  /\ files' = WriteChunk(files, wname, JsonDumps(wdata))
  /\ wpc' = IF files'[wname] = JsonDumps(wdata) THEN "open2" ELSE "write1"
  /\ UNCHANGED <<monitoring_config, returned, now, monVars, dpVars, loopVars, wdata, wname, exportsDone, readerGot>>

\* async with aiofiles.open(latest_path, 'w')
OpenLatest ==
  /\ wpc = "open2"
  /\ files' = OpenW(files, LatestPath)
  /\ wpc' = "write2"
  /\ UNCHANGED <<monitoring_config, returned, now, monVars, dpVars, loopVars, wdata, wname, exportsDone, readerGot>>

\* the second await f.write(...), part by part; the call returns after the last part
WriteLatest ==
  /\ wpc = "write2"
  /\ files' = WriteChunk(files, LatestPath, JsonDumps(wdata))
  /\ IF files'[LatestPath] = JsonDumps(wdata)
     THEN SaveReturns("done")
     ELSE wpc' = "write2" /\ UNCHANGED <<pc, sleepFor>>
  /\ UNCHANGED <<monitoring_config, returned, now, monVars, dpVars, running, mainPc, lastCycle, finalExports, seenAtStop,
                 wdata, wname, exportsDone, readerGot>>

\* mutant: a failed save that ends the export loop
SaveRaisesEndsLoop ==
  /\ Saving
  /\ wpc' = "failed"
  /\ pc' = [pc EXCEPT !["export"] = "done"]
  /\ UNCHANGED <<monitoring_config, returned, now, monVars, dpVars, running, mainPc, sleepFor, lastCycle, finalExports,
                 seenAtStop, files, wdata, wname, exportsDone, readerGot>>

\* mutant: a failed save leaves latest.json truncated
SaveRaisesTruncatesLatest ==
  /\ Saving
  /\ SaveReturns("failed")
  /\ files' = OpenW(files, LatestPath)
  /\ UNCHANGED <<monitoring_config, returned, now, monVars, dpVars, running, mainPc, lastCycle, finalExports, seenAtStop,
                 wdata, wname, exportsDone, readerGot>>

\* an open or a write raises: except Exception logs the failure and the call returns
SaveRaises ==
  /\ Saving
  /\ SaveReturns("failed")
  /\ UNCHANGED <<monitoring_config, returned, now, monVars, dpVars, running, mainPc, lastCycle, finalExports, seenAtStop,
                 files, wdata, wname, exportsDone, readerGot>>

\* AnalysisAPI.get_latest_data: None when latest.json does not exist, the parsed
\* content when json.loads accepts it, None after a logged error when it does not
ReadLatest ==
  /\ readerGot' = IF LatestPath \notin DOMAIN files THEN "absent"
                  ELSE IF JsonLoads(files[LatestPath]).ok THEN "parsed"
                  ELSE "error"
  /\ UNCHANGED <<monitoring_config, returned, now, monVars, dpVars, loopVars, files, wpc, wdata, wname, exportsDone>>

ExportNext ==
  \/ StartMonitoring
  \/ \E L \in Listings : BeginCycle(L)
  \/ \E L \in Listings : CycleRaises(L)
  \/ \E L \in Listings : CompleteCycle(L)
  \/ ExportCall
  \/ OpenTimestamped
  \/ WriteTimestamped
  \/ OpenLatest
  \/ WriteLatest
  \/ SaveRaises
  \/ ReadLatest

ExportSpec == Init /\ [][ExportNext]_vars

(***************************************************************************)
(* The DataProcessor called directly, as the tests and the scripts call    *)
(* it: one method applied once to one post of a fresh DataProcessor.       *)
(***************************************************************************)
\* <<title, selftext>> of the posts the methods are called with: the three texts
\* of the source, the first post of test_complete_data_flow (tests/test_integration.py)
\* and a text of more than ten words with option terms and words of both sentiment lists
DirectTexts ==
  {<<Title1, Body1>>, <<Title2, Body2>>, <<Title3, Body3>>,
   << << "$", "A", "A", "P", "L", " ", "e", "a", "r", "n", "i", "n", "g", "s", " ", "b", "e",
         "a", "t", " ", "e", "x", "p", "e", "c", "t", "a", "t", "i", "o", "n", "s" >>,
      << "S", "t", "r", "o", "n", "g", " ", "b", "u", "y", " ", "r", "e", "c", "o", "m", "m",
         "e", "n", "d", "a", "t", "i", "o", "n", " ", "w", "i", "t", "h", " ", "b", "u", "l",
         "l", "i", "s", "h", " ", "o", "u", "t", "l", "o", "o", "k" >> >>,
   << << "t", "h", "e", "t", "a", " ", "a", "n", "d", " ", "s", "t", "r", "i", "k", "e", " ",
         "r", "e", "v", "i", "e", "w", " ", "f", "o", "r", " ", "t", "h", "e", " ", "l", "o",
         "n", "g", " ", "d", "a", "t", "e", "d", " ", "c", "o", "n", "t", "r", "a", "c", "t",
         "s" >>,
      << "b", "u", "y", " ", "g", "r", "o", "w", "t", "h", " ", "a", "n", "d", " ", "h", "o",
         "l", "d", " ", "p", "r", "o", "f", "i", "t", " ", "w", "h", "i", "l", "e", " ", "b",
         "e", "a", "r", "s", " ", "s", "e", "l", "l" >> >>}

\* RedditPost(...) as the tests build it, collected at clock reading t
DirectPost(id, text, subreddit, eng, created, t) ==
  [id |-> id,
   title |-> text[1],
   selftext |-> text[2],
   subreddit |-> subreddit,
   score |-> eng[1],
   num_comments |-> eng[2],
   created_utc |-> created,
   category |-> get_subreddit_category(subreddit),
   timestamp_collected |-> t]

\* the posts a method is called with at clock reading t: <<score, num_comments>> on
\* both sides of every threshold of the classifiers, and ages in hours on both sides
\* of their one hour and six hour limits
DirectPosts(t) ==
  {DirectPost(1, text, ALL_SUBREDDITS[1], eng, t - age, t) :
     text \in DirectTexts,
     eng \in {<<50, 15>>, <<100, 50>>, <<101, 51>>, <<250, 67>>, <<600, 50>>, <<100, 250>>},
     age \in {0, 1, 5, 6}}

\* any(pattern.search(content)) over PRIORITY_PATTERNS:
\*   \$[A-Z]{1,5}\b   \b[A-Z]{1,5}\s+(calls?|puts?)\b   \b(buy|sell|hold)\s+[A-Z]{1,5}\b
MatchesPriority(s) ==
  LET P == 1..(Len(s) + 1)
      \* position i holds a \w character
      WordAt(i) == i \in 1..Len(s) /\ IsWordChar(s[i])
      \* the assertion \b between positions i - 1 and i
      Boundary(i) == WordAt(i - 1) # WordAt(i)
      \* [A-Z]{1,5} matches s[i..j]
      CapsRun(i, j) == (j - i + 1) \in 1..5 /\ j <= Len(s) /\ \A k \in i..j : s[k] \in UpperSet
      \* \s+ matches s[i..j]
      Spaces(i, j) == i <= j /\ j <= Len(s) /\ \A k \in i..j : s[k] = " "
      \* the literal w matches s[i..j]
      WordIs(i, j, w) == j - i + 1 = Len(w) /\ j <= Len(s) /\ SubSeq(s, i, j) = w
      option_words == {<<"c", "a", "l", "l">>, <<"c", "a", "l", "l", "s">>,
                       <<"p", "u", "t">>, <<"p", "u", "t", "s">>}
      trade_words == {<<"b", "u", "y">>, <<"s", "e", "l", "l">>, <<"h", "o", "l", "d">>}
  IN \/ \E i \in P, j \in P :
          /\ i <= Len(s) /\ s[i] = "$"
          /\ CapsRun(i + 1, j) /\ Boundary(j + 1)
     \/ \E i \in P, j \in P, k \in P, l \in P :
          /\ Boundary(i) /\ CapsRun(i, j) /\ Spaces(j + 1, k)
          /\ \E w \in option_words : WordIs(k + 1, l, w)
          /\ Boundary(l + 1)
     \/ \E i \in P, j \in P, k \in P, l \in P :
          /\ Boundary(i)
          /\ \E w \in trade_words : WordIs(i, j, w)
          /\ Spaces(j + 1, k) /\ CapsRun(k + 1, l) /\ Boundary(l + 1)

\* DataProcessor._is_trending_post at clock reading t
is_trending_post(post, t) ==
  LET post_age_hours == t - post.created_utc
  IN IF post_age_hours < 1 THEN post.score > 50 \/ post.num_comments > 20
     ELSE IF post_age_hours < 6 THEN post.score > 200 \/ post.num_comments > 75
     ELSE FALSE

\* DataProcessor.filter_priority_posts.  The elif of its line 142 follows the for
\* statement of lines 136-139 and not an if: Python rejects the text of the function
\* with a SyntaxError, so a call never yields a list.  The outcome of a call is
\* [raised |-> the exception or "none", list |-> the list returned if none was raised]
filter_priority_posts(posts, t) == [raised |-> "SyntaxError", list |-> <<>>]

\* processor.is_speculative_post(post)
IsSpeculativeCall ==
  /\ returned = NoCall
  /\ \E post \in DirectPosts(now) :
       returned' = [method |-> "is_speculative_post", post |-> post,
                    value |-> is_speculative_post(post, now)]
  /\ UNCHANGED <<monitoring_config, now, monVars, dpVars, loopVars, files, writerVars>>

\* processor.filter_priority_posts([post])
FilterPriorityCall ==
  /\ returned = NoCall
  /\ \E post \in DirectPosts(now) :
       returned' = [method |-> "filter_priority_posts", post |-> post,
                    value |-> filter_priority_posts(<<post>>, now)]
  /\ UNCHANGED <<monitoring_config, now, monVars, dpVars, loopVars, files, writerVars>>

\* processor._analyze_sentiment(post), once or several times in a row, with posts
\* of the texts above or of no text at all under one id or another
AnalyzeSentimentCall ==
  /\ returned.method \in {"none", "_analyze_sentiment"}
  /\ \E post \in {DirectPost(id, text, ALL_SUBREDDITS[1], <<50, 15>>, now, now) :
                     id \in 1..MaxAdds, text \in DirectTexts \cup {<< <<>>, <<>> >>}} :
       /\ sentiment_scores' = analyze_sentiment(sentiment_scores, post)
       /\ returned' = [method |-> "_analyze_sentiment", post |-> post]
  /\ UNCHANGED <<monitoring_config, now, monVars, posts_buffer, ticker_mentions, subreddit_activity, loopVars,
                 files, writerVars>>

ClassifierNext ==
  \/ IsSpeculativeCall
  \/ FilterPriorityCall
  \/ AnalyzeSentimentCall

ClassifierSpec == Init /\ [][ClassifierNext]_vars

(***************************************************************************)
(* The DataProcessor fed directly: add_posts, export_for_analysis and       *)
(* _get_recent_priority_posts called in any order while time passes.       *)
(***************************************************************************)
\* the posts add_posts is called with at clock reading t, all just created: the
\* first text in either subreddit with the engagements of test_subreddit_insights,
\* the two other texts, and "$A $B ... $U", one ticker more than a snapshot lists
ProcessorPosts(t) ==
  LET many == [i \in 1..62 |-> IF i % 3 = 1 THEN "$"
                               ELSE IF i % 3 = 2 THEN UpperAlpha[(i + 1) \div 3] ELSE " "]
  IN
  {DirectPost(1, <<many, <<>>>>, ALL_SUBREDDITS[1], <<100, 20>>, t, t)}
  \cup
  {DirectPost(id, text, ALL_SUBREDDITS[1], <<100, 20>>, t, t) :
     id \in 1..MaxAdds, text \in {<<Title2, Body2>>, <<Title3, Body3>>}}
  \cup
  {DirectPost(id, <<Title1, Body1>>, sub, eng, t, t) :
     id \in 1..MaxAdds,
     sub \in {ALL_SUBREDDITS[i] : i \in DOMAIN ALL_SUBREDDITS},
     eng \in {<<100, 20>>, <<200, 50>>}}

\* processor.add_posts([post]) with a post whose id the DataProcessor holds nowhere
AddPostsCall ==
  /\ \E post \in ProcessorPosts(now) :
       /\ \A i \in DOMAIN posts_buffer : posts_buffer[i].id # post.id
       /\ post.id \notin DOMAIN sentiment_scores
       /\ \A sub \in DOMAIN subreddit_activity :
            \A i \in DOMAIN subreddit_activity[sub].posts :
              subreddit_activity[sub].posts[i].id # post.id
       /\ SetDP(add_posts(DPState, <<post>>, now))
       /\ returned' = [method |-> "add_posts", post |-> post]
  /\ UNCHANGED <<monitoring_config, now, monVars, loopVars, files, writerVars>>

\* processor.export_for_analysis()
ExportForAnalysisCall ==
  /\ LET e == export_for_analysis(DPState, now)
     IN /\ SetDP(e.state)
        /\ returned' = [method |-> "export_for_analysis", value |-> e.data]
  /\ UNCHANGED <<monitoring_config, now, monVars, loopVars, files, writerVars>>

\* DataProcessor._get_recent_priority_posts: the posts collected in the last hour go
\* through filter_priority_posts; the first 50 of its list are turned into dicts
get_recent_priority_posts(D, t) ==
  LET recent_posts == SelectSeq(D.posts_buffer, LAMBDA post : post.timestamp_collected > t - 1)
      priority_posts == filter_priority_posts(recent_posts, t)
  IN IF priority_posts.raised # "none"
     THEN [raised |-> priority_posts.raised, list |-> <<>>]
     ELSE [raised |-> "none",
           list |-> [k \in 1..Min(50, Len(priority_posts.list)) |->
                       LET post == priority_posts.list[k]
                       IN [id |-> post.id,
                           title |-> post.title,
                           subreddit |-> post.subreddit,
                           score |-> post.score,
                           comments |-> post.num_comments,
                           created_utc |-> post.created_utc,
                           category |-> post.category,
                           sentiment |-> IF post.id \in DOMAIN D.sentiment_scores
                                         THEN D.sentiment_scores[post.id]
                                         ELSE [num |-> 0, den |-> 1],
                           is_speculative |-> is_speculative_post(post, t)]]]

\* processor._get_recent_priority_posts()
GetRecentPriorityPostsCall ==
  /\ returned' = [method |-> "_get_recent_priority_posts",
                  value |-> get_recent_priority_posts(DPState, now)]
  /\ UNCHANGED <<monitoring_config, now, monVars, dpVars, loopVars, files, writerVars>>

ProcessorNext ==
  \/ Tick
  \/ AddPostsCall
  \/ ExportForAnalysisCall
  \/ GetRecentPriorityPostsCall

ProcessorSpec == Init /\ [][ProcessorNext]_vars

(***************************************************************************)
(* Properties                                                              *)
(***************************************************************************)

C2_FinalExportOnEveryExit ==
  mainPc \in {"done", "failed"} => finalExports = 1

C4_NoPartialFile ==
  /\ \A path \in DOMAIN files : JsonLoads(files[path]).ok
  /\ readerGot # "error"

\* C5 as stated: a snapshot (periodic or final) leaves the four collections of the
\* aggregator unchanged.
C5_SnapshotIsPureRead ==
  [][(exportsDone' # exportsDone \/ finalExports' # finalExports) => UNCHANGED dpVars]_vars

\* C5 amended: a snapshot removes the posts collected DATA_RETENTION_HOURS or more ago
\* from the post buffer and the entries of posts created DATA_RETENTION_HOURS or more
\* ago from the per-subreddit lists; the entries that stay, their order, the
\* per-subreddit sums, the ticker table and the sentiment map are unchanged.
C5_SnapshotOnlyExpires ==
  [][(exportsDone' # exportsDone \/ finalExports' # finalExports) =>
       /\ ticker_mentions' = ticker_mentions
       /\ sentiment_scores' = sentiment_scores
       /\ posts_buffer' = SelectSeq(posts_buffer,
              LAMBDA p : now - p.timestamp_collected < DATA_RETENTION_HOURS)
       /\ DOMAIN subreddit_activity' = DOMAIN subreddit_activity
       /\ \A sub \in DOMAIN subreddit_activity :
            /\ subreddit_activity'[sub].total_score = subreddit_activity[sub].total_score
            /\ subreddit_activity'[sub].total_comments = subreddit_activity[sub].total_comments
            /\ subreddit_activity'[sub].speculative_count
                 = subreddit_activity[sub].speculative_count
            /\ subreddit_activity'[sub].posts = SelectSeq(subreddit_activity[sub].posts,
                   LAMBDA p : now - p.timestamp < DATA_RETENTION_HOURS)
    ]_vars

\* a snapshot has emptied the post buffer of an aggregator that was given posts
C5_Witness ==
  /\ exportsDone + finalExports > 0
  /\ seen_post_ids # {}
  /\ posts_buffer = <<>>
  /\ ticker_mentions # <<>>

\* C6: the set of seen ids never holds more ids than the capacity of the bounded
\* collections of the monitor.
C6_SeenIdsBounded ==
  Cardinality(seen_post_ids) <= BufferMaxLen

C8_EveryListingIsFetched ==
  [][\A L \in Listings :
       (running /\ AtLoopTest(L) /\ pc'[L] # pc[L]) => pc'[L] = "fetching"]_vars

\* C9: the sleep after a failed cycle is longer than the listing's normal interval.
C9_BackoffLongerThanInterval ==
  \A L \in Listings : pc[L] = "backoff" => sleepFor[L] > Interval(L)

\* C10: latest.json is opened and written only when the timestamped file holds the
\* whole serialized snapshot, and when save_export_data completes both files hold
\* the serialization of the snapshot that was passed in, which parses back to it.
C10_TimestampedThenLatest ==
  [][/\ (/\ LatestPath \in DOMAIN files'
         /\ (LatestPath \in DOMAIN files => files'[LatestPath] # files[LatestPath]))
          => (wname \in DOMAIN files /\ files[wname] = JsonDumps(wdata))
     /\ (wpc # "done" /\ wpc' = "done")
          => /\ wname \in DOMAIN files' /\ files'[wname] = JsonDumps(wdata)
             /\ files'[LatestPath] = files'[wname]
             /\ JsonLoads(files'[LatestPath]) = [ok |-> TRUE, data |-> wdata]
    ]_vars

\* a second export has completed: latest.json was overwritten and equals the second
\* timestamped file, and the first timestamped file is still there
C10_Witness ==
  /\ wpc = "done"
  /\ exportsDone >= 2
  /\ Cardinality(DOMAIN files) >= 3
  /\ files[LatestPath] = JsonDumps(wdata)
  /\ files[wname] = files[LatestPath]

\* C11: a save that fails ends no loop and changes nothing of the aggregator or the
\* monitor: the export loop goes to its normal sleep, the listing loops stay where
\* they are, the flag stays set, and as long as exports remain in the run the export
\* loop can make the next one.
C11_WriteFailureNotFatal ==
  [][(wpc # "failed" /\ wpc' = "failed") =>
       /\ pc'["export"] = "sleeping"
       /\ sleepFor'["export"] = EXPORT_INTERVAL
       /\ \A l \in Loops \ {"export"} : pc'[l] = pc[l]
       /\ running' = running
       /\ UNCHANGED <<dpVars, monVars>>
       /\ (running' /\ exportsDone' < MaxSaves) => (ENABLED ExportCall)'
    ]_vars

\* a save failed before it wrote anything, and the export after it has completed
C11_Witness ==
  /\ wpc = "done"
  /\ exportsDone = 2
  /\ PeriodicName(now, 0) \notin DOMAIN files
  /\ PeriodicName(now, 1) \in DOMAIN files
  /\ files[LatestPath] = JsonDumps(wdata)

\* C12: the cleanup of a snapshot keeps a post collected less than DATA_RETENTION_HOURS
\* ago both in the post buffer and in the list of its subreddit, and removes a post
\* collected more than DATA_RETENTION_HOURS ago from both.
C12_CleanupByCollectionTime ==
  [][(exportsDone' # exportsDone \/ finalExports' # finalExports) =>
       \A i \in DOMAIN posts_buffer :
         LET p == posts_buffer[i]
             age == now - p.timestamp_collected
             InBuffer == \E j \in DOMAIN posts_buffer' : posts_buffer'[j].id = p.id
             InList == \E j \in DOMAIN subreddit_activity'[p.subreddit].posts :
                          subreddit_activity'[p.subreddit].posts[j].id = p.id
         IN /\ age < DATA_RETENTION_HOURS => (InBuffer /\ InList)
            /\ age > DATA_RETENTION_HOURS => (~InBuffer /\ ~InList)
    ]_vars

\* C13: the cleanup of a snapshot changes neither the ticker table nor the sentiment
\* map; the counts and the scores of the posts it removes stay.
C13_CleanupKeepsTickersAndSentiment ==
  [][returned'.method = "export_for_analysis" =>
       /\ ticker_mentions' = ticker_mentions
       /\ sentiment_scores' = sentiment_scores
    ]_vars

\* a snapshot has removed a post from the post buffer and from the list of its
\* subreddit, and the sentiment of that post and the ticker counts are still there
C13_Witness ==
  /\ returned.method = "export_for_analysis"
  /\ ticker_mentions # <<>>
  /\ \E id \in DOMAIN sentiment_scores :
       /\ \A i \in DOMAIN posts_buffer : posts_buffer[i].id # id
       /\ \A sub \in DOMAIN subreddit_activity :
            \A i \in DOMAIN subreddit_activity[sub].posts :
              subreddit_activity[sub].posts[i].id # id

\* C14: over any step, adding posts, cleaning up or taking a snapshot, every ticker
\* of the table stays in it and its count does not decrease.
C14_TickerCountsMonotone ==
  [][\A i \in DOMAIN ticker_mentions :
       \E j \in DOMAIN ticker_mentions' :
         /\ ticker_mentions'[j].ticker = ticker_mentions[i].ticker
         /\ ticker_mentions'[j].count >= ticker_mentions[i].count
    ]_vars

\* a ticker counted in two posts is in the table after a snapshot whose cleanup
\* removed one of them
C14_Witness ==
  /\ returned.method = "export_for_analysis"
  /\ Len(posts_buffer) = 1
  /\ \E i \in DOMAIN ticker_mentions : ticker_mentions[i].count >= 4

\* C15: in every snapshot the avg_score and avg_comments of a subreddit are the sum
\* of the scores and of the comment counts of the posts counted in its total_posts,
\* divided by total_posts (rounded to hundredths), whatever posts were added and
\* cleaned up before.
C15_AveragesOfCountedPosts ==
  returned.method = "export_for_analysis" =>
    \A sub \in DOMAIN returned.value.subreddit_insights :
      LET insight == returned.value.subreddit_insights[sub]
          posts == subreddit_activity[sub].posts
          scores == Sum([i \in DOMAIN posts |-> posts[i].score], DOMAIN posts)
          comments == Sum([i \in DOMAIN posts |-> posts[i].comments], DOMAIN posts)
      IN /\ insight.total_posts = Len(posts)
         /\ insight.avg_score = RoundScaled(scores, insight.total_posts, 100)
         /\ insight.avg_comments = RoundScaled(comments, insight.total_posts, 100)

\* C16: with an invalid configuration, here a refresh interval that is zero or
\* negative, the monitor fails at startup: no loop starts, no fetch is issued and no
\* export is made.
C16_InvalidConfigFailsAtStartup ==
  ("refresh_interval" \in DOMAIN monitoring_config
     /\ monitoring_config["refresh_interval"] <= 0) =>
    /\ mainPc \in {"init", "failed"}
    /\ \A l \in Loops : pc[l] = "none"
    /\ exportsDone = 0
    /\ seen_post_ids = {}

C18_NoKeywordNotSpeculative ==
  returned.method = "is_speculative_post" =>
    LET content == Lower(Content(returned.post))
        keyword == \E i \in DOMAIN SPECULATIVE_KEYWORDS :
                     Contains(content, Lower(SPECULATIVE_KEYWORDS[i]))
        options == \E i \in DOMAIN options_keywords : Contains(content, options_keywords[i])
    IN (~keyword /\ ~options) => returned.value = FALSE

\* C19: filter_priority_posts keeps a post exactly when its text matches a priority
\* pattern, or it has more than 500 points or more than 200 comments, or it is less
\* than one hour old with more than 50 points or more than 20 comments, or it is less
\* than six hours old with more than 200 points or more than 75 comments.
C19_PriorityRule ==
  returned.method = "filter_priority_posts" =>
    LET post == returned.post
        age == now - post.created_utc
        keep == \/ MatchesPriority(Content(post))
                \/ post.score > 500 \/ post.num_comments > 200
                \/ (age < 1 /\ (post.score > 50 \/ post.num_comments > 20))
                \/ (age < 6 /\ (post.score > 200 \/ post.num_comments > 75))
    IN /\ returned.value.raised = "none"
       /\ returned.value.list = (IF keep THEN <<post>> ELSE <<>>)

\* C20: a stored sentiment score lies between -1 and 1, is the difference of the
\* positive and the negative hits divided by max(words / 10, 1) and clamped, and has
\* the sign of that difference.
C20_SentimentRange ==
  returned.method = "_analyze_sentiment" =>
    LET post == returned.post
        content == Lower(Content(post))
        positive == Cardinality({i \in DOMAIN positive_words :
                                   Contains(content, positive_words[i])})
        negative == Cardinality({i \in DOMAIN negative_words :
                                   Contains(content, negative_words[i])})
        words == WordCount(content)
        score == sentiment_scores[post.id]
    IN words > 0 =>
         /\ post.id \in DOMAIN sentiment_scores
         /\ score.den > 0
         /\ 0 - score.den <= score.num /\ score.num <= score.den
         \* score = clamp((positive - negative) / max(words / 10, 1)):
         \* with d = max(words, 10) the quotient is 10 * (positive - negative) / d
         /\ LET d == IF words > 10 THEN words ELSE 10
                q == 10 * (positive - negative)
            IN /\ (0 - d <= q /\ q <= d) => score.num * d = q * score.den
               /\ q > d => score.num = score.den
               /\ q < 0 - d => score.num = 0 - score.den
         /\ positive > negative => score.num > 0
         /\ positive < negative => score.num < 0

\* a score strictly between 0 and 1 has been stored for a text of more than ten words
C20_Witness ==
  /\ returned.method = "_analyze_sentiment"
  /\ returned.post.id \in DOMAIN sentiment_scores
  /\ sentiment_scores[returned.post.id].num > 0
  /\ sentiment_scores[returned.post.id].num < sentiment_scores[returned.post.id].den
  /\ WordCount(Content(returned.post)) > 10


\* C21: the trending tickers of a snapshot are the 20 tickers with the highest counts,
\* or all of them if there are fewer, in descending order of count and, among equal
\* counts, in first-seen order; no ticker left out has a higher count than a listed one.
C21_TrendingTickersOrder ==
  returned.method = "export_for_analysis" =>
    LET listed == returned.value.trending_tickers
        at(k) == CHOOSE i \in DOMAIN ticker_mentions : ticker_mentions[i] = listed[k]
    IN /\ Len(listed) = (IF Len(ticker_mentions) < 20 THEN Len(ticker_mentions) ELSE 20)
       /\ \A k \in DOMAIN listed : \E i \in DOMAIN ticker_mentions : ticker_mentions[i] = listed[k]
       /\ \A k \in DOMAIN listed : \A l \in DOMAIN listed :
            k < l => \/ listed[k].count > listed[l].count
                     \/ (listed[k].count = listed[l].count /\ at(k) < at(l))
       /\ \A i \in DOMAIN ticker_mentions :
            (\A k \in DOMAIN listed : listed[k] # ticker_mentions[i]) =>
              \A k \in DOMAIN listed : ticker_mentions[i].count <= listed[k].count

\* a snapshot lists 20 of 21 counted tickers, led by one that was not the first seen
C21_Witness ==
  /\ returned.method = "export_for_analysis"
  /\ Len(ticker_mentions) = 21
  /\ Len(returned.value.trending_tickers) = 20
  /\ returned.value.trending_tickers[1] # ticker_mentions[1]
  /\ returned.value.trending_tickers[1].count > returned.value.trending_tickers[2].count

\* C22: the sentiment_analysis object of every snapshot, also of one taken before any
\* post was scored, has the five fields average, positive, negative, neutral and total,
\* and positive + negative + neutral = total.
C22_SentimentSummaryFields ==
  returned.method = "export_for_analysis" =>
    LET summary == returned.value.sentiment_analysis
    IN /\ DOMAIN summary = {"average", "positive", "negative", "neutral", "total"}
       /\ summary.positive + summary.negative + summary.neutral = summary.total


C27_TickerCountedOncePerPost ==
  [][(returned'.method = "add_posts" /\ posts_buffer' # posts_buffer) =>
       LET found == TickersIn(Content(returned'.post))
           count(tm, tk) == IF \E j \in DOMAIN tm : tm[j].ticker = tk
                            THEN tm[CHOOSE j \in DOMAIN tm : tm[j].ticker = tk].count
                            ELSE 0
           tickers == {found[k] : k \in DOMAIN found}
                        \cup {ticker_mentions'[j].ticker : j \in DOMAIN ticker_mentions'}
       IN \A tk \in tickers :
            count(ticker_mentions', tk) =
              count(ticker_mentions, tk) + (IF \E k \in DOMAIN found : found[k] = tk THEN 1 ELSE 0)
    ]_vars


\* C30: for every subreddit the speculative count is at most the number of posts in
\* its list, so the speculative_ratio of every subreddit in a snapshot (in thousandths)
\* lies between 0 and 1.
C30_SpeculativeRatioInRange ==
  /\ \A sub \in DOMAIN subreddit_activity :
       subreddit_activity[sub].speculative_count <= Len(subreddit_activity[sub].posts)
  /\ returned.method = "export_for_analysis" =>
       \A sub \in DOMAIN returned.value.subreddit_insights :
         /\ returned.value.subreddit_insights[sub].speculative_ratio >= 0
         /\ returned.value.subreddit_insights[sub].speculative_ratio <= 1000


\* C28: the list of recent priority posts built for a snapshot holds at most 50
\* entries; each is a post now in the buffer, collected within the last hour and
\* matching a priority pattern or an engagement rule; the entries are in buffer order
\* and no id is listed twice.
C28_RecentPriorityPosts ==
  returned.method = "_get_recent_priority_posts" =>
    LET list == returned.value.list
        at(k) == CHOOSE i \in DOMAIN posts_buffer : posts_buffer[i].id = list[k].id
    IN /\ returned.value.raised = "none"
       /\ Len(list) <= 50
       /\ \A k \in DOMAIN list :
            /\ \E i \in DOMAIN posts_buffer : posts_buffer[i].id = list[k].id
            /\ posts_buffer[at(k)].timestamp_collected > now - 1
            /\ \/ MatchesPriority(Content(posts_buffer[at(k)]))
               \/ posts_buffer[at(k)].score > 500
               \/ posts_buffer[at(k)].num_comments > 200
               \/ is_trending_post(posts_buffer[at(k)], now)
       /\ \A k, l \in DOMAIN list : k < l => at(k) < at(l)


\* C29: the sentiment map holds one score per post id: a call of _analyze_sentiment
\* with a post that has words stores the score of that post under its id, replacing
\* the score the id had, and changes no other entry, so the map grows by at most the
\* one id; a call with a post whose title and body hold no word changes nothing.
C29_OneScorePerId ==
  [][returned'.method = "_analyze_sentiment" =>
       LET post == returned'.post
           words == WordCount(Lower(Content(post)))
           s == SentimentOf(post)
       IN /\ words = 0 => sentiment_scores' = sentiment_scores
          /\ words > 0 =>
               /\ DOMAIN sentiment_scores' = DOMAIN sentiment_scores \cup {post.id}
               /\ sentiment_scores'[post.id] = [num |-> s.num, den |-> s.den]
               /\ \A id \in DOMAIN sentiment_scores \ {post.id} :
                    sentiment_scores'[id] = sentiment_scores[id]
          /\ Cardinality(DOMAIN sentiment_scores') <= Cardinality(DOMAIN sentiment_scores) + 1
    ]_vars

\* an id with a score was analysed again with a post of no words while the other id
\* has no score: the map holds the one entry
C29_Witness ==
  /\ returned.method = "_analyze_sentiment"
  /\ WordCount(Lower(Content(returned.post))) = 0
  /\ DOMAIN sentiment_scores = {returned.post.id}


\* C31: the global post buffer and the per-subreddit lists describe the same posts: an
\* id is in the buffer if and only if it is in the list of its subreddit, and the
\* metadata.total_posts of every exported snapshot is the sum of the total_posts of
\* its subreddit insights.
C31_BufferMatchesSubredditLists ==
  LET listed == UNION {{<<sub, subreddit_activity[sub].posts[i].id>> :
                          i \in DOMAIN subreddit_activity[sub].posts} :
                       sub \in DOMAIN subreddit_activity}
      buffered == {<<posts_buffer[i].subreddit, posts_buffer[i].id>> : i \in DOMAIN posts_buffer}
  IN /\ buffered = listed
     /\ \A path \in DOMAIN files :
          JsonLoads(files[path]).ok =>
            LET data == JsonLoads(files[path]).data
            IN data.metadata.total_posts =
                 Sum([sub \in DOMAIN data.subreddit_insights |->
                        data.subreddit_insights[sub].total_posts],
                     DOMAIN data.subreddit_insights)


\* C32: in every state of the monitor the total_posts of the subreddit statistics add
\* up to the size of the seen set, the ring buffer holds as many posts as there are
\* seen ids or, if that is less, its maxlen, and in every subreddit hot_posts and
\* speculative_posts are at most total_posts.
C32_MonitorCountsAgree ==
  /\ Sum([sub \in DOMAIN subreddit_stats |-> subreddit_stats[sub].total_posts],
         DOMAIN subreddit_stats) = Cardinality(seen_post_ids)
  /\ Len(post_buffer) = (IF Cardinality(seen_post_ids) < BufferMaxLen
                         THEN Cardinality(seen_post_ids) ELSE BufferMaxLen)
  /\ \A sub \in DOMAIN subreddit_stats :
       /\ subreddit_stats[sub].hot_posts >= 0
       /\ subreddit_stats[sub].hot_posts <= subreddit_stats[sub].total_posts
       /\ subreddit_stats[sub].speculative_posts >= 0
       /\ subreddit_stats[sub].speculative_posts <= subreddit_stats[sub].total_posts

\* more ids are seen than the ring buffer holds, one post came from the hot listing
\* and one from another listing, and one of them is speculative
C32_Witness ==
  /\ Cardinality(seen_post_ids) > BufferMaxLen
  /\ Len(post_buffer) = BufferMaxLen
  /\ \E sub \in DOMAIN subreddit_stats :
       subreddit_stats[sub].total_posts = 1 /\ subreddit_stats[sub].hot_posts = 1
  /\ \E sub \in DOMAIN subreddit_stats :
       subreddit_stats[sub].total_posts = 1 /\ subreddit_stats[sub].hot_posts = 0
  /\ \E sub \in DOMAIN subreddit_stats : subreddit_stats[sub].speculative_posts = 1


C35_ActiveSubredditsListed ==
  returned.method = "export_for_analysis" =>
    returned.value.activity_summary.active_subreddits =
      Cardinality(DOMAIN returned.value.subreddit_insights)


\* C36: while save_export_data is at its timestamped file, and when the open or the
\* write of that file fails, latest.json stays as it was: absent if it was absent,
\* with the same content otherwise; latest.json changes only in a save whose
\* timestamped file holds the whole serialized snapshot.
C36_FailedSaveKeepsLatest ==
  [][LET same == /\ LatestPath \in DOMAIN files' <=> LatestPath \in DOMAIN files
                 /\ LatestPath \in DOMAIN files => files'[LatestPath] = files[LatestPath]
     IN /\ wpc \in {"open1", "write1"} => same
        /\ (wpc \in {"open1", "write1"} /\ wpc' = "failed") => files' = files
        /\ ~same => /\ wpc \in {"open2", "write2"}
                    /\ wname \in DOMAIN files'
                    /\ files'[wname] = JsonDumps(wdata)
    ]_vars

\* the second save failed at its timestamped file, which is missing or cut short, and
\* latest.json still holds the whole snapshot of the first save
C36_Witness ==
  /\ wpc = "failed"
  /\ exportsDone = 2
  /\ wname \notin DOMAIN files \/ files[wname] # JsonDumps(wdata)
  /\ LatestPath \in DOMAIN files
  /\ JsonLoads(files[LatestPath]).ok
  /\ \E path \in DOMAIN files : path # LatestPath /\ path # wname /\ files[path] = files[LatestPath]

====
